---- MODULE Spec2Model ----
(***************************************************************************)
(* A model of split_mkv.py: the scanner find_mkv_headers, the splitter     *)
(* split_mkv_stream with its per-segment writes, print_summary,            *)
(* format_file_size, read_input_data and main's top-level handler.         *)
(* Bytes are integers 0..255, buffers are sequences of bytes with Python's *)
(* zero-based offsets, text is TLA+ strings.                               *)
(***************************************************************************)
EXTENDS Integers, Sequences, FiniteSets, TLC

VARIABLES
    pc,             \* position of main: args, read, split, loop, except, exit
    input_file,     \* args.input ("" when the option is omitted)
    output_prefix,  \* args.output_prefix
    data,           \* the buffer returned by read_input_data
    start_indices,  \* split_mkv_stream: the scanner's offset list
    idx,            \* split_mkv_stream: the loop index
    file_sizes,     \* split_mkv_stream: list of <<output_file, formatted size>>
    files,          \* the file system: output_file -> bytes on disk
    dirs,           \* the directories os.makedirs has created
    attempted,      \* loop indices for which open(output_file, 'wb') was called
    log,            \* the logging records emitted, <<level, format, arguments as text>>
    stdout,         \* the lines printed
    exc,            \* the exception raised, named by type and raising call ("" when none)
    split_called,   \* whether main has called split_mkv_stream
    fmt_arg,        \* argument of a stand-alone format_file_size call
    fmt_ret         \* its result ("" before the call)

vars == <<pc, input_file, output_prefix, data, start_indices, idx, file_sizes,
          files, dirs, attempted, log, stdout, exc, split_called, fmt_arg, fmt_ret>>

pipeline_vars == <<pc, input_file, output_prefix, data, start_indices, idx, file_sizes,
                   files, dirs, attempted, log, stdout, exc, split_called>>

(***************************************************************************)
(* Bounds of the model.                                                    *)
(***************************************************************************)
\* a buffer is the concatenation of at most MaxChunks chunks
MaxChunks == 4
\* format_file_size is applied to every size within FmtWindow of a landmark
FmtWindow == 8

(***************************************************************************)
(* Constants and pure helpers.                                             *)
(***************************************************************************)
MAGIC_MKV_HEADER == <<26, 69, 223, 163>>

Min(a, b) == IF a < b THEN a ELSE b

MaxOf(S) == CHOOSE m \in S : \A x \in S : x <= m

\* Python's range(n)
range(n) == IF n > 0 THEN 0 .. (n - 1) ELSE {}

\* Python's s[a:b] for 0 <= a, zero-based, clamped to the length of s
PySlice(s, a, b) == SubSeq(s, a + 1, Min(b, Len(s)))

\* bytes.startswith
startswith(s, prefix) == PySlice(s, 0, Len(prefix)) = prefix

RECURSIVE repeat(_, _)
\* Python's ch * n
repeat(ch, n) == IF n <= 0 THEN "" ELSE ch \o repeat(ch, n - 1)

\* str.ljust
ljust(s, width) == s \o repeat(" ", width - Len(s))

(***************************************************************************)
(* find_mkv_headers: the list comprehension over range(len(data) - 4).     *)
(***************************************************************************)
RECURSIVE scan_from(_, _)
scan_from(buf, i) ==
    IF i \notin range(Len(buf) - Len(MAGIC_MKV_HEADER))
    THEN <<>>
    ELSE (IF PySlice(buf, i, i + 4) = MAGIC_MKV_HEADER THEN <<i>> ELSE <<>>)
         \o scan_from(buf, i + 1)

\* a scanner that reports one-based positions
find_mkv_headers_one_based(buf) == [j \in DOMAIN scan_from(buf, 0) |-> scan_from(buf, 0)[j] + 1]

find_mkv_headers(buf) == scan_from(buf, 0)

(***************************************************************************)
(* format_file_size.  size_bytes / 2^20 and size_bytes / 2^10 are exact in *)
(* binary floating point, so the '.2f' conversion rounds the exact         *)
(* quotient to the nearest hundredth, ties to the even hundredth.          *)
(***************************************************************************)
\* the number of hundredths '.2f' shows for num / den
hundredths(num, den) ==
    LET q == (100 * num) \div den
        r == (100 * num) % den
    IN  IF 2 * r > den \/ (2 * r = den /\ q % 2 = 1) THEN q + 1 ELSE q

\* the text of h hundredths with two decimals
fixed2(h) == ToString(h \div 100) \o "." \o ToString((h % 100) \div 10) \o ToString(h % 10)

\* a formatter that switches to MB only above 1 MiB
format_file_size_above(size_bytes) ==
    IF size_bytes > 1024 * 1024
    THEN fixed2(hundredths(size_bytes, 1024 * 1024)) \o " MB"
    ELSE fixed2(hundredths(size_bytes, 1024)) \o " KB"

format_file_size(size_bytes) ==
    IF size_bytes >= 1024 * 1024
    THEN fixed2(hundredths(size_bytes, 1024 * 1024)) \o " MB"
    ELSE fixed2(hundredths(size_bytes, 1024)) \o " KB"

(***************************************************************************)
(* split_mkv_stream: the pieces of one loop iteration.                     *)
(***************************************************************************)
\* a boundary rule that runs every segment to the end of the buffer
segment_end_to_eof(starts, i, buf) == Len(buf)

\* end = start_indices[idx + 1] if idx + 1 < len(start_indices) else len(data)
segment_end(starts, i, buf) ==
    IF i + 1 < Len(starts) THEN starts[i + 2] ELSE Len(buf)

\* a slice that stops one byte before end
segment_of_short(starts, i, buf) ==
    PySlice(buf, starts[i + 1], segment_end(starts, i, buf) - 1)

\* segment = data[start:end]   (starts[i + 1] is Python's start_indices[i])
segment_of(starts, i, buf) == PySlice(buf, starts[i + 1], segment_end(starts, i, buf))

\* a naming rule that numbers an artifact by the count of artifacts created before it
output_file_name_renumbered(prefix, i) ==
    prefix \o "_" \o ToString(Len(file_sizes)) \o ".mkv"

\* f"{output_prefix}_{idx}.mkv"
output_file_name(prefix, i) == prefix \o "_" \o ToString(i) \o ".mkv"

\* os.path.dirname on the prefixes of the model
dirname(prefix) ==
    CASE prefix = "./output/split_output" -> "./output"
      [] prefix = "split_output" -> ""

\* os.path.dirname(output_prefix) or '.'
output_dir(prefix) == IF dirname(prefix) = "" THEN "." ELSE dirname(prefix)

\* what the try block leaves on disk: "ok" the whole segment, "open_fail"
\* nothing new, "write_fail" the first kept bytes of the segment
disk_after(fs, name, segment, outcome, kept) ==
    CASE outcome = "ok" -> (name :> segment) @@ fs
      [] outcome = "write_fail" -> (name :> SubSeq(segment, 1, kept)) @@ fs
      [] outcome = "open_fail" -> fs

\* an append placed outside the try block
sizes_after_always(sizes, name, size, outcome) ==
    Append(sizes, <<name, format_file_size(size)>>)

\* file_sizes.append(...) is reached only when open, write and getsize succeed
sizes_after(sizes, name, size, outcome) ==
    IF outcome = "ok" THEN Append(sizes, <<name, format_file_size(size)>>) ELSE sizes

\* the record logged by the try block or its except clause
write_log(name, size, outcome) ==
    IF outcome = "ok"
    THEN <<"INFO", "Created: %s (%s)", <<name, format_file_size(size)>>>>
    ELSE <<"ERROR", "Error writing %s: %s", <<name, "IOError">>>>

(***************************************************************************)
(* print_summary.                                                          *)
(***************************************************************************)
col1_width(sizes) == MaxOf({Len(sizes[j][1]) : j \in DOMAIN sizes})
col2_width(sizes) == MaxOf({Len(sizes[j][2]) : j \in DOMAIN sizes})

separator(sizes) ==
    "+" \o repeat("-", col1_width(sizes) + 2) \o "+" \o repeat("-", col2_width(sizes) + 2) \o "+"

table_row(sizes, name, size) ==
    "| " \o ljust(name, col1_width(sizes)) \o " | " \o ljust(size, col2_width(sizes)) \o " |"

summary_lines(sizes) ==
    <<"", "Summary of created files:", separator(sizes),
      table_row(sizes, "File Name", "Size"), separator(sizes)>>
    \o [j \in DOMAIN sizes |-> table_row(sizes, sizes[j][1], sizes[j][2])]
    \o <<separator(sizes)>>

(***************************************************************************)
(* The inputs of the model.                                                *)
(***************************************************************************)
Chunks == {MAGIC_MKV_HEADER, <<0>>, <<26>>, <<26, 69, 223>>}

RECURSIVE BuffersOf(_)
BuffersOf(n) ==
    IF n = 0 THEN {<<>>}
    ELSE LET shorter == BuffersOf(n - 1)
         IN  shorter \cup {b \o c : b \in shorter, c \in Chunks}

\* the single-marker and the two-segment buffers: MARKER + 10 zero bytes, and
\* MARKER + "AAAAA" + MARKER + "BBB"
SingleMarkerBuffer == MAGIC_MKV_HEADER \o [j \in 1 .. 10 |-> 0]

TwoSegmentBuffer ==
    MAGIC_MKV_HEADER \o [j \in 1 .. 5 |-> 65] \o MAGIC_MKV_HEADER \o [j \in 1 .. 3 |-> 66]

Buffers == BuffersOf(MaxChunks) \cup {SingleMarkerBuffer, TwoSegmentBuffer}

Prefixes == {"./output/split_output", "split_output"}

InputFiles == {"", "concat.mkv"}

WriteOutcomes == {"ok", "open_fail", "write_fail"}

FmtLandmarks == {0, 128, 384, 512, 1024, 1024 * 1024, 1152 * 1024, 1408 * 1024, 1536 * 1024}

FmtInputs == {s \in UNION {(c - FmtWindow) .. (c + FmtWindow) : c \in FmtLandmarks} : s >= 0}

(***************************************************************************)
(* The state machine of main.                                              *)
(***************************************************************************)
Init ==
    /\ pc = "args"
    /\ input_file = ""
    /\ output_prefix = ""
    /\ data = <<>>
    /\ start_indices = <<>>
    /\ idx = 0
    /\ file_sizes = <<>>
    /\ files = <<>>
    /\ dirs = {}
    /\ attempted = {}
    /\ log = <<>>
    /\ stdout = <<>>
    /\ exc = ""
    /\ split_called = FALSE
    /\ fmt_arg = 0
    /\ fmt_ret = ""

\* main: parser.parse_args() and logging.basicConfig
ParseArgs ==
    /\ pc = "args"
    /\ \E p \in Prefixes, f \in InputFiles :
        /\ output_prefix' = p
        /\ input_file' = f
    /\ pc' = "read"
    /\ UNCHANGED <<data, start_indices, idx, file_sizes, files, dirs, attempted, log,
                   stdout, exc, split_called, fmt_arg, fmt_ret>>

\* a read that, on failure, hands main an empty buffer to go on with
ReadInputData_continues ==
    /\ pc = "read"
    /\ LET announced == IF input_file # "" THEN log
                        ELSE Append(log, <<"INFO", "Reading from stdin...", <<>>>>)
       IN  \/ \E b \in Buffers :
                /\ data' = b
                /\ log' = announced
                /\ exc' = exc
           \/ /\ data' = <<>>
              /\ log' = announced
              /\ exc' = "OSError in read_input_data"
    /\ pc' = "split"
    /\ UNCHANGED <<input_file, output_prefix, start_indices, idx, file_sizes, files, dirs,
                   attempted, stdout, split_called, fmt_arg, fmt_ret>>

\* main: data = read_input_data(args.input)
ReadInputData ==
    /\ pc = "read"
    /\ LET announced == IF input_file # "" THEN log
                        ELSE Append(log, <<"INFO", "Reading from stdin...", <<>>>>)
       IN  \/ \E b \in Buffers :
                /\ data' = b
                /\ log' = announced
                /\ pc' = "split"
                /\ exc' = exc
           \/ /\ data' = data
              /\ log' = announced
              /\ pc' = "except"
              /\ exc' = "OSError in read_input_data"
    /\ UNCHANGED <<input_file, output_prefix, start_indices, idx, file_sizes, files, dirs,
                   attempted, stdout, split_called, fmt_arg, fmt_ret>>

\* a splitter that logs the missing markers and goes on without returning
SplitBegin_no_return ==
    /\ pc = "split"
    /\ split_called' = TRUE
    /\ start_indices' = find_mkv_headers(data)
    /\ log' = IF find_mkv_headers(data) = <<>>
              THEN Append(log, <<"ERROR", "No MKV headers found.", <<>>>>)
              ELSE log
    /\ \/ /\ dirs' = dirs \cup {output_dir(output_prefix)}
          /\ pc' = "loop"
          /\ UNCHANGED exc
       \/ /\ exc' = "OSError in os.makedirs"
          /\ pc' = "except"
          /\ UNCHANGED dirs
    /\ UNCHANGED <<input_file, output_prefix, data, idx, file_sizes, files, attempted,
                   stdout, fmt_arg, fmt_ret>>

\* split_mkv_stream up to the loop: the scan, the early return, os.makedirs
SplitBegin ==
    /\ pc = "split"
    /\ split_called' = TRUE
    /\ start_indices' = find_mkv_headers(data)
    /\ IF find_mkv_headers(data) = <<>>
       THEN /\ log' = Append(log, <<"ERROR", "No MKV headers found.", <<>>>>)
            /\ pc' = "exit"
            /\ UNCHANGED <<dirs, exc>>
       ELSE \/ /\ dirs' = dirs \cup {output_dir(output_prefix)}
               /\ pc' = "loop"
               /\ UNCHANGED <<log, exc>>
            \/ /\ exc' = "OSError in os.makedirs"
               /\ pc' = "except"
               /\ UNCHANGED <<log, dirs>>
    /\ UNCHANGED <<input_file, output_prefix, data, idx, file_sizes, files, attempted,
                   stdout, fmt_arg, fmt_ret>>

\* split_mkv_stream: one iteration of the loop over enumerate(start_indices)
SplitSegment ==
    /\ pc = "loop"
    /\ idx < Len(start_indices)
    /\ LET segment == segment_of(start_indices, idx, data)
           name == output_file_name(output_prefix, idx)
       IN  IF ~startswith(segment, MAGIC_MKV_HEADER)
           THEN /\ log' = Append(log, <<"WARNING",
                                         "Split #%d does not start with EBML header!",
                                         <<ToString(idx)>>>>)
                /\ UNCHANGED <<files, file_sizes, attempted>>
           ELSE \E outcome \in WriteOutcomes, kept \in 0 .. (Len(segment) - 1) :
                /\ outcome # "write_fail" => kept = 0
                /\ attempted' = attempted \cup {idx}
                /\ files' = disk_after(files, name, segment, outcome, kept)
                /\ file_sizes' = sizes_after(file_sizes, name, Len(segment), outcome)
                /\ log' = Append(log, write_log(name, Len(segment), outcome))
    /\ idx' = idx + 1
    /\ UNCHANGED <<pc, input_file, output_prefix, data, start_indices, dirs, stdout, exc,
                   split_called, fmt_arg, fmt_ret>>

\* split_mkv_stream: print_summary(file_sizes) after the loop, then the return
PrintSummary ==
    /\ pc = "loop"
    /\ idx = Len(start_indices)
    /\ IF file_sizes = <<>>
       THEN /\ exc' = "ValueError in max"
            /\ pc' = "except"
            /\ UNCHANGED stdout
       ELSE /\ stdout' = stdout \o summary_lines(file_sizes)
            /\ pc' = "exit"
            /\ UNCHANGED exc
    /\ UNCHANGED <<input_file, output_prefix, data, start_indices, idx, file_sizes, files,
                   dirs, attempted, log, split_called, fmt_arg, fmt_ret>>

\* main: except Exception as e: logging.error("Unhandled exception: %s", e)
MainExcept ==
    /\ pc = "except"
    /\ log' = Append(log, <<"ERROR", "Unhandled exception: %s", <<exc>>>>)
    /\ pc' = "exit"
    /\ UNCHANGED <<input_file, output_prefix, data, start_indices, idx, file_sizes, files,
                   dirs, attempted, stdout, exc, split_called, fmt_arg, fmt_ret>>

Next ==
    \/ ParseArgs
    \/ ReadInputData
    \/ SplitBegin
    \/ SplitSegment
    \/ PrintSummary
    \/ MainExcept

Spec == Init /\ [][Next]_vars

(***************************************************************************)
(* format_file_size on its own, over the sizes of FmtInputs.               *)
(***************************************************************************)
InitFmt ==
    /\ pc = "exit"
    /\ input_file = ""
    /\ output_prefix = ""
    /\ data = <<>>
    /\ start_indices = <<>>
    /\ idx = 0
    /\ file_sizes = <<>>
    /\ files = <<>>
    /\ dirs = {}
    /\ attempted = {}
    /\ log = <<>>
    /\ stdout = <<>>
    /\ exc = ""
    /\ split_called = FALSE
    /\ fmt_arg \in FmtInputs
    /\ fmt_ret = ""

FormatFileSize ==
    /\ fmt_ret = ""
    /\ fmt_ret' = format_file_size(fmt_arg)
    /\ UNCHANGED <<pipeline_vars, fmt_arg>>

NextFmt == FormatFileSize

SpecFmt == InitFmt /\ [][NextFmt]_vars

(***************************************************************************)
(* Vocabulary of the properties.                                           *)
(***************************************************************************)
Range(seq) == {seq[j] : j \in DOMAIN seq}

IsPrefixOf(p, s) == Len(p) <= Len(s) /\ SubSeq(s, 1, Len(p)) = p

\* the marker occupies the four bytes of buf at zero-based offset o
MarkerAt(buf, o) ==
    /\ o >= 0
    /\ o + 4 <= Len(buf)
    /\ \A j \in 1 .. 4 : buf[o + j] = MAGIC_MKV_HEADER[j]

\* the scan has run and found at least one marker
Scanned == split_called /\ start_indices # <<>>

\* the half-open byte range [SegStart(i), SegEnd(i)) the splitter derives for index i
SegStart(i) == start_indices[i + 1]
SegEnd(i) == segment_end(start_indices, i, data)
SegIndices == 0 .. (Len(start_indices) - 1)

RECURSIVE SegmentsConcat(_)
\* segment_i + ... + segment_{k-1}
SegmentsConcat(i) ==
    IF i >= Len(start_indices) THEN <<>>
    ELSE segment_of(start_indices, i, data) \o SegmentsConcat(i + 1)

\* the name "{prefix}_{i}.mkv"
ArtifactName(i) == output_prefix \o "_" \o ToString(i) \o ".mkv"

\* the log records of iteration i
CreatedRecords(i) ==
    {r \in Range(log) : r[2] = "Created: %s (%s)" /\ r[3][1] = ArtifactName(i)}
ErrorRecords(i) ==
    {r \in Range(log) : r[2] = "Error writing %s: %s" /\ r[3][1] = ArtifactName(i)}

\* the names listed in the summary list
SummaryNames == {file_sizes[j][1] : j \in DOMAIN file_sizes}

\* split_mkv_stream has ended, by returning or by raising
SplitEnded == split_called /\ pc \in {"except", "exit"}

(***************************************************************************)
(* C1.  Scanner completeness: once the scan has run, every offset o in     *)
(* [0, n-4] at which the buffer holds the marker is in the offset list,    *)
(* o = n-4 (a marker that is the last four bytes) included.                *)
(***************************************************************************)
C1_ScannerComplete ==
    split_called =>
        \A o \in 0 .. (Len(data) - 4) : MarkerAt(data, o) => o \in Range(start_indices)

(***************************************************************************)
(* C2.  Segment completeness as claimed: when the offset list is not       *)
(* empty, the segments concatenated in index order are exactly the buffer. *)
(***************************************************************************)
C2_ConcatIsBuffer == Scanned => SegmentsConcat(0) = data

(***************************************************************************)
(* C2 amended.  When the offset list is not empty, the segments            *)
(* concatenated in index order are exactly the bytes of the buffer from    *)
(* the first offset o_0 to its end: the buffer itself when o_0 = 0, the    *)
(* buffer without its first o_0 bytes otherwise.                           *)
(***************************************************************************)
C2_ConcatIsBufferFromFirstOffset ==
    Scanned =>
        /\ Len(SegmentsConcat(0)) = Len(data) - start_indices[1]
        /\ \A j \in 1 .. (Len(data) - start_indices[1]) :
            SegmentsConcat(0)[j] = data[start_indices[1] + j]
        /\ start_indices[1] = 0 => SegmentsConcat(0) = data

\* at least two segments behind bytes that precede the first marker
C2_Witness ==
    /\ Scanned
    /\ start_indices[1] > 0
    /\ Len(start_indices) >= 2
    /\ SegmentsConcat(0) # data

(***************************************************************************)
(* C3.  Zero-artifact summary: when the loop has run over a non-empty      *)
(* offset list and no artifact was recorded, split_mkv_stream returns      *)
(* without raising (no maximum over an empty collection) and prints no     *)
(* table.                                                                  *)
(***************************************************************************)
C3_ZeroArtifactsNoRaise ==
    (SplitEnded /\ start_indices # <<>> /\ idx = Len(start_indices) /\ file_sizes = <<>>)
        => (exc = "" /\ pc = "exit" /\ stdout = <<>>)

(***************************************************************************)
(* C4.  Write-failure isolation: every index the loop has passed was       *)
(* attempted and has exactly one log record, a creation or an error of its *)
(* own; an index whose write failed is not in the summary list; an index   *)
(* whose write succeeded keeps its whole segment on disk and its entry in  *)
(* the summary list, whatever happened to the others; and when the         *)
(* splitter ends after the directory was made, every index was attempted.  *)
(***************************************************************************)
C4_WriteFailureIsolation ==
    Scanned =>
        /\ \A i \in 0 .. (idx - 1) :
            /\ i \in attempted
            /\ Cardinality(CreatedRecords(i) \cup ErrorRecords(i)) = 1
            /\ ErrorRecords(i) # {} => ArtifactName(i) \notin SummaryNames
            /\ ErrorRecords(i) = {} =>
                /\ ArtifactName(i) \in DOMAIN files
                /\ files[ArtifactName(i)] = SubSeq(data, SegStart(i) + 1, SegEnd(i))
                /\ ArtifactName(i) \in SummaryNames
        /\ Cardinality({j \in DOMAIN log : log[j][2] = "Error writing %s: %s"})
             = Cardinality({i \in 0 .. (idx - 1) : ErrorRecords(i) # {}})
        /\ (SplitEnded /\ dirs # {}) => attempted = SegIndices

\* three segments, the middle write failed, the first and the last are on disk
C4_Witness ==
    /\ Scanned
    /\ idx = 3
    /\ ErrorRecords(1) # {}
    /\ ErrorRecords(0) = {} /\ ErrorRecords(2) = {}
    /\ ArtifactName(0) \in DOMAIN files /\ ArtifactName(2) \in DOMAIN files
    /\ Len(file_sizes) = 2

(***************************************************************************)
(* C5.  No-markers outcome: when split_mkv_stream was called and the       *)
(* scanner found no marker, as it does for the empty buffer and for every  *)
(* buffer shorter than four bytes, the error "No MKV headers found." is    *)
(* the last record logged, no file is written, no directory is made,       *)
(* nothing is printed and the call has returned without an exception.      *)
(***************************************************************************)
C5_NoMarkersOutcome ==
    /\ (split_called /\ Len(data) < 4) => start_indices = <<>>
    /\ (split_called /\ start_indices = <<>>) =>
        /\ pc = "exit"
        /\ exc = ""
        /\ log # <<>>
        /\ log[Len(log)] = <<"ERROR", "No MKV headers found.", <<>>>>
        /\ Cardinality({j \in DOMAIN log : log[j][1] = "ERROR"}) = 1
        /\ DOMAIN files = {}
        /\ attempted = {}
        /\ dirs = {}
        /\ stdout = <<>>
        /\ file_sizes = <<>>

\* a three-byte buffer went through the splitter
C5_Witness ==
    /\ split_called
    /\ Len(data) = 3
    /\ start_indices = <<>>
    /\ pc = "exit"

(***************************************************************************)
(* C6.  Artifact content and naming: every entry of the summary list is a  *)
(* file named "{prefix}_{i}.mkv" for an index i of the offset list, whose  *)
(* bytes are exactly B[o_i:end_i] and begin with the marker; every file on *)
(* disk, a truncated one left by a failed write included, carries the name *)
(* of an attempted index and holds a prefix of that index's slice; nothing *)
(* is ever handed to a write that does not start with the marker; the      *)
(* single-marker buffer gives one 14-byte artifact of index 0, the         *)
(* two-segment buffer artifacts of 9 and 7 bytes.                          *)
(***************************************************************************)
C6_ArtifactContentAndNaming ==
    /\ \A n \in SummaryNames :
        \E i \in SegIndices :
            /\ n = ArtifactName(i)
            /\ i < idx
            /\ n \in DOMAIN files
            /\ files[n] = SubSeq(data, start_indices[i + 1] + 1,
                                 IF i + 2 <= Len(start_indices)
                                 THEN start_indices[i + 2] ELSE Len(data))
            /\ MarkerAt(files[n], 0)
    /\ \A n \in DOMAIN files :
        \E i \in attempted :
            /\ n = ArtifactName(i)
            /\ IsPrefixOf(files[n], SubSeq(data, start_indices[i + 1] + 1, Len(data)))
    /\ \A i \in attempted : MarkerAt(data, start_indices[i + 1])
    /\ (data = SingleMarkerBuffer /\ Len(file_sizes) = 1) =>
        /\ SummaryNames = {output_prefix \o "_0.mkv"}
        /\ files[output_prefix \o "_0.mkv"] = data
        /\ Len(data) = 14
    /\ (data = TwoSegmentBuffer /\ Len(file_sizes) = 2) =>
        /\ files[output_prefix \o "_0.mkv"] = <<26, 69, 223, 163, 65, 65, 65, 65, 65>>
        /\ files[output_prefix \o "_1.mkv"] = <<26, 69, 223, 163, 66, 66, 66>>

\* index 0 failed, index 1 was written under its own number after bytes that
\* precede the first marker
C6_Witness ==
    /\ Scanned
    /\ idx = 2
    /\ start_indices[1] > 0
    /\ SummaryNames = {ArtifactName(1)}
    /\ files[ArtifactName(1)] = SubSeq(data, start_indices[2] + 1, Len(data))

(***************************************************************************)
(* C7.  Input-acquisition failure: when read_input_data raised, main's     *)
(* handler takes the exception, logs its message as the last record,       *)
(* split_mkv_stream is never called, and no file, no directory and no      *)
(* output exist; the handler is always able to run, so main ends.          *)
(***************************************************************************)
C7_ReadFailureHandled ==
    /\ pc = "except" => ENABLED MainExcept
    /\ exc = "OSError in read_input_data" =>
        /\ ~split_called
        /\ pc \in {"except", "exit"}
        /\ DOMAIN files = {}
        /\ dirs = {}
        /\ attempted = {}
        /\ stdout = <<>>
        /\ pc = "exit" =>
            /\ log # <<>>
            /\ log[Len(log)] = <<"ERROR", "Unhandled exception: %s", <<exc>>>>
            /\ Cardinality({j \in DOMAIN log : log[j][1] = "ERROR"}) = 1

\* main has ended after a failed read of the named input file
C7_Witness ==
    /\ exc = "OSError in read_input_data"
    /\ input_file # ""
    /\ pc = "exit"

(***************************************************************************)
(* C8.  Size formatting: the text is the number of hundredths nearest to   *)
(* s/1048576 followed by " MB" exactly when s >= 1048576, and otherwise    *)
(* the number of hundredths nearest to s/1024 followed by " KB", always    *)
(* with two decimals; 0, 512, 1024, 1048576 and 1572864 give "0.00 KB",    *)
(* "0.50 KB", "1.00 KB", "1.00 MB" and "1.50 MB".                          *)
(***************************************************************************)
C8_TwoDecimals(h) ==
    ToString(h \div 100) \o "." \o (IF h % 100 < 10 THEN "0" ELSE "") \o ToString(h % 100)

C8_Nearest(h, s, den) ==
    /\ 2 * (100 * s - h * den) <= den
    /\ 2 * (h * den - 100 * s) <= den

C8_Shown(s, den, unit) ==
    \E h \in ((100 * s) \div den) .. ((100 * s) \div den + 1) :
        /\ C8_Nearest(h, s, den)
        /\ fmt_ret = C8_TwoDecimals(h) \o " " \o unit

C8_SizeFormatting ==
    fmt_ret # "" =>
        /\ fmt_arg >= 1048576 => C8_Shown(fmt_arg, 1048576, "MB")
        /\ fmt_arg < 1048576 => C8_Shown(fmt_arg, 1024, "KB")
        /\ fmt_arg = 0 => fmt_ret = "0.00 KB"
        /\ fmt_arg = 512 => fmt_ret = "0.50 KB"
        /\ fmt_arg = 1024 => fmt_ret = "1.00 KB"
        /\ fmt_arg = 1048576 => fmt_ret = "1.00 MB"
        /\ fmt_arg = 1572864 => fmt_ret = "1.50 MB"

\* the smallest size shown in MB has been formatted
C8_Witness == fmt_arg = 1048576 /\ fmt_ret = "1.00 MB"

(***************************************************************************)
(* C9.  Offset-list invariant: the offset list is strictly increasing,     *)
(* every entry lies in [0, len(B)-4] and has the marker at it; so the      *)
(* startswith validation never fails: no warning is ever logged and every  *)
(* index the loop has passed went on to the write.                         *)
(***************************************************************************)
C9_OffsetListInvariant ==
    split_called =>
        /\ \A j \in 1 .. (Len(start_indices) - 1) : start_indices[j] < start_indices[j + 1]
        /\ \A j \in DOMAIN start_indices :
            /\ start_indices[j] \in 0 .. (Len(data) - 4)
            /\ MarkerAt(data, start_indices[j])
        /\ \A j \in DOMAIN log : log[j][1] # "WARNING"
        /\ \A i \in 0 .. (idx - 1) : i \in attempted

\* the loop has passed three offsets
C9_Witness ==
    /\ Scanned
    /\ Len(start_indices) = 3
    /\ idx = 3

(***************************************************************************)
(* C10.  Implicit coverage: for a non-empty offset list the derived        *)
(* segments are non-empty, each is the slice of its range, every byte      *)
(* position from o_0 on lies in exactly one of them (disjoint, contiguous, *)
(* covering [o_0, len(B))), every position below o_0 lies in none, and     *)
(* every file on disk holds bytes of one segment only.                     *)
(***************************************************************************)
C10_SegmentsCoverFromFirstOffset ==
    Scanned =>
        /\ \A i \in SegIndices :
            /\ SegStart(i) < SegEnd(i)
            /\ SegEnd(i) <= Len(data)
            /\ segment_of(start_indices, i, data) = SubSeq(data, SegStart(i) + 1, SegEnd(i))
            /\ i + 1 \in SegIndices => SegEnd(i) = SegStart(i + 1)
        /\ \A p \in 0 .. (Len(data) - 1) :
            Cardinality({i \in SegIndices : SegStart(i) <= p /\ p < SegEnd(i)})
                = (IF p >= start_indices[1] THEN 1 ELSE 0)
        /\ \A n \in DOMAIN files :
            \E i \in SegIndices : IsPrefixOf(files[n], segment_of(start_indices, i, data))

\* two segments written behind bytes that precede the first marker
C10_Witness ==
    /\ Scanned
    /\ start_indices[1] > 0
    /\ Len(start_indices) = 2
    /\ Len(file_sizes) = 2
    /\ pc = "exit"

====
